---- MODULE Spec2Model ----
(***************************************************************************)
(* Model of src/lib.rs: the three lazy numeric ranges (ExclusiveRange,     *)
(* InclusiveRange, UnboundedRange), their Iterator::next and their         *)
(* StepBy::step_by.                                                        *)
(*                                                                         *)
(* T and S are instantiated with the mathematical integers (`+` is exact)  *)
(* under Spec, SpecPull and SpecPair, and with a signed integer of Width   *)
(* bits whose addition wraps modulo 2^Width under SpecWrap (`arith`).      *)
(* A range value is a record of its fields.  The behaviour of one range    *)
(* value is a sequence of calls, each of which appends an event (the call, *)
(* its argument, its result, the value before and after) to `hist`.        *)
(* `other` is a second, distinct range value (SpecPair only).  `budget` is *)
(* the number of calls, and of calls to step_by, the caller makes.         *)
(***************************************************************************)
EXTENDS Integers, Sequences, FiniteSets

VARIABLES kind, ctor, rng, hist, arith, other, budget

vars == <<kind, ctor, rng, hist, arith, other, budget>>

(* ------------------------------ bounds -------------------------------- *)

\* start and stop are drawn from 0 .. MaxVal
MaxVal == 3
\* step and new_step are drawn from -NegStep .. MaxStep
MaxStep == 2
NegStep == 1
\* calls made on one range value
MaxOps == 5
\* of which calls to step_by
MaxRebinds == 1
\* calls made on one range value, and those of them to step_by, under
\* SpecRebind
MaxRebindOps == 3
MaxChain == 2

\* bits of the fixed-width signed integer T of SpecWrap
Width == 3
\* start and stop of the ranges of SpecPair are drawn from 0 .. MaxPairVal
MaxPairVal == 2
\* calls to next made on the second range of SpecPair
MaxOtherOps == 3

Vals == 0 .. MaxVal
Steps == (0 - NegStep) .. MaxStep

(* ------------------------------ Option<T> ----------------------------- *)

None == << >>
Some(v) == << v >>
IsSome(o) == Len(o) = 1
Unwrap(o) == o[1]

(* ------------------------------ the structs --------------------------- *)

ExclusiveRange(start, stop, step) == [start |-> start, stop |-> stop, step |-> step]
InclusiveRange(start, stop, step) == [start |-> start, stop |-> stop, step |-> step]
UnboundedRange(start, step) == [start |-> start, step |-> step]

\* the least and greatest value of a signed integer of Width bits
MinT == 0 - 2 ^ (Width - 1)
MaxT == 2 ^ (Width - 1) - 1

\* x reduced modulo 2^Width into MinT .. MaxT
WrapT(x) == ((x - MinT) % (2 ^ Width)) + MinT

\* T: Add<S, Output = T>, the `+` of self.start + self.step
Add(a, s) == IF arith = "wrapping" THEN WrapT(a + s) ELSE a + s

(* ------------------------------ Iterator::next ------------------------ *)
(* Each returns the pair of the updated *self and the returned Option.    *)

\* ExclusiveNext with the inclusive guard
ExclusiveNextLeGuard(self) ==
    IF self.start <= self.stop
    THEN [self |-> [self EXCEPT !.start = Add(self.start, self.step)],
          ret |-> Some(self.start)]
    ELSE [self |-> self, ret |-> None]

\* ExclusiveNext returning the cursor after the advance instead of tmp
ExclusiveNextNoTmp(self) ==
    IF self.start < self.stop
    THEN [self |-> [self EXCEPT !.start = Add(self.start, self.step)],
          ret |-> Some(Add(self.start, self.step))]
    ELSE [self |-> self, ret |-> None]

\* ExclusiveNext advancing the cursor on the None branch too
ExclusiveNextAdvanceOnNone(self) ==
    IF self.start < self.stop
    THEN [self |-> [self EXCEPT !.start = Add(self.start, self.step)],
          ret |-> Some(self.start)]
    ELSE [self |-> [self EXCEPT !.start = Add(self.start, self.step)],
          ret |-> None]

\* ExclusiveNext advancing by one instead of by self.step
ExclusiveNextUnitStep(self) ==
    IF self.start < self.stop
    THEN [self |-> [self EXCEPT !.start = Add(self.start, 1)],
          ret |-> Some(self.start)]
    ELSE [self |-> self, ret |-> None]

\* ExclusiveNext that does not store the advanced cursor
ExclusiveNextNoAdvance(self) ==
    IF self.start < self.stop
    THEN [self |-> self, ret |-> Some(self.start)]
    ELSE [self |-> self, ret |-> None]

\* ExclusiveNext with the guard start != stop
ExclusiveNextNeGuard(self) ==
    IF self.start # self.stop
    THEN [self |-> [self EXCEPT !.start = Add(self.start, self.step)],
          ret |-> Some(self.start)]
    ELSE [self |-> self, ret |-> None]

ExclusiveNext(self) ==
    IF self.start < self.stop
    THEN LET tmp == self.start
         IN  [self |-> [self EXCEPT !.start = Add(self.start, self.step)],
              ret |-> Some(tmp)]
    ELSE [self |-> self, ret |-> None]

\* InclusiveNext moving stop along with start
InclusiveNextMovesStop(self) ==
    IF self.start <= self.stop
    THEN [self |-> [self EXCEPT !.start = Add(self.start, self.step),
                                !.stop = Add(self.stop, self.step)],
          ret |-> Some(self.start)]
    ELSE [self |-> self, ret |-> None]

\* InclusiveNext counting down to stop when the step is negative
InclusiveNextDirectional(self) ==
    IF (IF self.step < 0 THEN self.start >= self.stop ELSE self.start <= self.stop)
    THEN [self |-> [self EXCEPT !.start = Add(self.start, self.step)],
          ret |-> Some(self.start)]
    ELSE [self |-> self, ret |-> None]

\* InclusiveNext with the exclusive guard
InclusiveNextLtGuard(self) ==
    IF self.start < self.stop
    THEN [self |-> [self EXCEPT !.start = Add(self.start, self.step)],
          ret |-> Some(self.start)]
    ELSE [self |-> self, ret |-> None]

\* InclusiveNext advancing the cursor on the None branch too
InclusiveNextAdvanceOnNone(self) ==
    IF self.start <= self.stop
    THEN [self |-> [self EXCEPT !.start = Add(self.start, self.step)],
          ret |-> Some(self.start)]
    ELSE [self |-> [self EXCEPT !.start = Add(self.start, self.step)],
          ret |-> None]

InclusiveNext(self) ==
    IF self.start <= self.stop
    THEN LET tmp == self.start
         IN  [self |-> [self EXCEPT !.start = Add(self.start, self.step)],
              ret |-> Some(tmp)]
    ELSE [self |-> self, ret |-> None]

\* UnboundedNext moving the cursor back by self.step
UnboundedNextBackward(self) ==
    [self |-> [self EXCEPT !.start = Add(self.start, 0 - self.step)],
     ret |-> Some(self.start)]

\* UnboundedNext returning the cursor after the advance instead of tmp
UnboundedNextNoTmp(self) ==
    [self |-> [self EXCEPT !.start = Add(self.start, self.step)],
     ret |-> Some(Add(self.start, self.step))]

UnboundedNext(self) ==
    LET tmp == self.start
    IN  [self |-> [self EXCEPT !.start = Add(self.start, self.step)],
         ret |-> Some(tmp)]

(* ------------------------------ StepBy::step_by ----------------------- *)

\* ExclusiveStepBy applying the new step to the cursor at once
ExclusiveStepBySkips(self, step) ==
    ExclusiveRange(self.start + step, self.stop, step)

\* ExclusiveStepBy refusing a step that is not positive
ExclusiveStepByValidated(self, step) ==
    ExclusiveRange(self.start, self.stop, IF step > 0 THEN step ELSE self.step)

ExclusiveStepBy(self, step) == ExclusiveRange(self.start, self.stop, step)

\* InclusiveStepBy adding the new step to the old one
InclusiveStepByAccumulate(self, step) ==
    InclusiveRange(self.start, self.stop, self.step + step)

InclusiveStepBy(self, step) == InclusiveRange(self.start, self.stop, step)

\* UnboundedStepBy applying the new step to the cursor at once
UnboundedStepByAdvance(self, step) == UnboundedRange(self.start + step, step)

UnboundedStepBy(self, step) == UnboundedRange(self.start, step)

(* ------------------------------ the state machine --------------------- *)

Event(op, arg, ret, pre, post) ==
    [op |-> op, arg |-> arg, ret |-> ret, pre |-> pre, post |-> post]

Rebinds == Len(SelectSeq(hist, LAMBDA e : e.op = "step_by"))

InitExclusive ==
    \E start \in Vals, stop \in Vals, step \in Steps :
        /\ kind = "Exclusive"
        /\ ctor = ExclusiveRange(start, stop, step)

InitInclusive ==
    \E start \in Vals, stop \in Vals, step \in Steps :
        /\ kind = "Inclusive"
        /\ ctor = InclusiveRange(start, stop, step)

InitUnbounded ==
    \E start \in Vals, step \in Steps :
        /\ kind = "Unbounded"
        /\ ctor = UnboundedRange(start, step)

\* no second range value
NoRange == << >>

Init ==
    /\ (InitExclusive \/ InitInclusive \/ InitUnbounded)
    /\ rng = ctor
    /\ hist = << >>
    /\ arith = "exact"
    /\ other = NoRange
    /\ budget = [ops |-> MaxOps, rebinds |-> MaxRebinds]

\* one call r.next() whose cursor is also the cursor of the other range
CalledSharedCursor(c) ==
    /\ rng' = c.self
    /\ hist' = Append(hist, Event("next", None, c.ret, rng, c.self))
    /\ other' = IF other = NoRange THEN other
                ELSE [other EXCEPT !.rng.start = c.self.start]
    /\ UNCHANGED <<kind, ctor, arith, budget>>

\* one call r.next() with result c
Called(c) ==
    /\ rng' = c.self
    /\ hist' = Append(hist, Event("next", None, c.ret, rng, c.self))
    /\ UNCHANGED <<kind, ctor, arith, other, budget>>

\* one call r = r.step_by(step) with result r2
Rebound(step, r2) ==
    /\ rng' = r2
    /\ hist' = Append(hist, Event("step_by", Some(step), None, rng, r2))
    /\ UNCHANGED <<kind, ctor, arith, other, budget>>

ExclNext ==
    /\ kind = "Exclusive"
    /\ Len(hist) < budget.ops
    /\ Called(ExclusiveNext(rng))

InclNext ==
    /\ kind = "Inclusive"
    /\ Len(hist) < budget.ops
    /\ Called(InclusiveNext(rng))

UnbNext ==
    /\ kind = "Unbounded"
    /\ Len(hist) < budget.ops
    /\ Called(UnboundedNext(rng))

ExclStepBy ==
    /\ kind = "Exclusive"
    /\ Len(hist) < budget.ops
    /\ Rebinds < budget.rebinds
    /\ \E step \in Steps : Rebound(step, ExclusiveStepBy(rng, step))

InclStepBy ==
    /\ kind = "Inclusive"
    /\ Len(hist) < budget.ops
    /\ Rebinds < budget.rebinds
    /\ \E step \in Steps : Rebound(step, InclusiveStepBy(rng, step))

UnbStepBy ==
    /\ kind = "Unbounded"
    /\ Len(hist) < budget.ops
    /\ Rebinds < budget.rebinds
    /\ \E step \in Steps : Rebound(step, UnboundedStepBy(rng, step))

Next ==
    \/ ExclNext
    \/ InclNext
    \/ UnbNext
    \/ ExclStepBy
    \/ InclStepBy
    \/ UnbStepBy

Spec == Init /\ [][Next]_vars

(* ------------------------------ repeated rebinding ------------------- *)

\* a caller that makes fewer calls, more of them to step_by
InitRebind ==
    /\ (InitExclusive \/ InitInclusive \/ InitUnbounded)
    /\ rng = ctor
    /\ hist = << >>
    /\ arith = "exact"
    /\ other = NoRange
    /\ budget = [ops |-> MaxRebindOps, rebinds |-> MaxChain]

SpecRebind == InitRebind /\ [][Next]_vars

(* ------------------------------ repeated pulling --------------------- *)

\* the caller only calls next, and keeps calling it
NextPull ==
    \/ ExclNext
    \/ InclNext
    \/ UnbNext

SpecPull == Init /\ [][NextPull]_vars /\ WF_vars(NextPull)

(* ------------------------------ two range values --------------------- *)

PairVals == 0 .. MaxPairVal

\* next of variant k
NextAs(k, r) ==
    CASE k = "Exclusive" -> ExclusiveNext(r)
      [] k = "Inclusive" -> InclusiveNext(r)
      [] k = "Unbounded" -> UnboundedNext(r)

\* the ranges of variant k built from values of PairVals and Steps
BuiltPair(k) ==
    CASE k = "Exclusive" ->
             {ExclusiveRange(a, b, c) : a \in PairVals, b \in PairVals, c \in Steps}
      [] k = "Inclusive" ->
             {InclusiveRange(a, b, c) : a \in PairVals, b \in PairVals, c \in Steps}
      [] k = "Unbounded" ->
             {UnboundedRange(a, c) : a \in PairVals, c \in Steps}

Kinds == {"Exclusive", "Inclusive", "Unbounded"}

InitPair ==
    /\ kind \in Kinds
    /\ ctor \in BuiltPair(kind)
    /\ rng = ctor
    /\ hist = << >>
    /\ arith = "exact"
    /\ budget = [ops |-> MaxOps, rebinds |-> MaxRebinds]
    /\ \E k \in Kinds : \E r \in BuiltPair(k) :
           other = [kind |-> k, ctor |-> r, rng |-> r, hist |-> << >>]

\* one call to next on the other range value
OtherNext ==
    /\ other # NoRange
    /\ Len(other.hist) < MaxOtherOps
    /\ LET c == NextAs(other.kind, other.rng)
       IN  other' = [other EXCEPT
                        !.rng = c.self,
                        !.hist = Append(@, Event("next", None, c.ret, other.rng, c.self))]
    /\ UNCHANGED <<kind, ctor, rng, hist, arith, budget>>

\* the calls to next on the two range values, in any order
NextPair ==
    \/ ExclNext
    \/ InclNext
    \/ UnbNext
    \/ OtherNext

SpecPair == InitPair /\ [][NextPair]_vars

(* ------------------------------ fixed-width T ------------------------- *)

\* start and stop within MaxVal of the greatest value of T
WrapVals == (MaxT - MaxVal) .. MaxT

InitWrap ==
    /\ \E start \in WrapVals, stop \in WrapVals, step \in Steps :
           \/ kind = "Exclusive" /\ ctor = ExclusiveRange(start, stop, step)
           \/ kind = "Inclusive" /\ ctor = InclusiveRange(start, stop, step)
           \/ kind = "Unbounded" /\ ctor = UnboundedRange(start, step)
    /\ rng = ctor
    /\ hist = << >>
    /\ arith = "wrapping"
    /\ other = NoRange
    /\ budget = [ops |-> MaxOps, rebinds |-> MaxRebinds]

SpecWrap == InitWrap /\ [][Next]_vars

(* ------------------------------ reading the history ------------------- *)

\* the results of the calls to next, in order
Pulls == SelectSeq(hist, LAMBDA e : e.op = "next")

\* no call to step_by so far: the step is the constructed one
ConstantStep == Rebinds = 0

Bounded == kind \in {"Exclusive", "Inclusive"}

\* the results returned by the calls to next, in order
Results == [k \in 1 .. Len(Pulls) |-> Pulls[k].ret]

\* the k-th term (k >= 1) of the progression of the constructed range
Term(k) == ctor.start + (k - 1) * ctor.step

\* the events of the history that are calls to next / to step_by
NextEvents == {j \in 1 .. Len(hist) : hist[j].op = "next"}
StepByEvents == {j \in 1 .. Len(hist) : hist[j].op = "step_by"}

(* ------------------------------ C1 ------------------------------------ *)

\* C1: an ExclusiveRange built with start < stop and step > 0 and pulled
\* repeatedly returns Some of each term start + k*step that is < stop, in
\* order, and None on every call after them.
C1_ExclusiveYieldsProgression ==
    (kind = "Exclusive" /\ ConstantStep /\ ctor.start < ctor.stop /\ ctor.step > 0)
        => \A k \in 1 .. Len(Results) :
               Results[k] = IF Term(k) < ctor.stop THEN Some(Term(k)) ELSE None

C1_Witness ==
    /\ kind = "Exclusive"
    /\ ctor = ExclusiveRange(0, 3, 1)
    /\ Results = << Some(0), Some(1), Some(2), None, None >>

(* ------------------------------ C2 ------------------------------------ *)

\* C2: an InclusiveRange built with start <= stop and step > 0 returns Some
\* of each term start + k*step that is <= stop, in order (stop itself when it
\* lies on the progression), then None; no value above stop is returned.
C2_InclusiveYieldsProgression ==
    (kind = "Inclusive" /\ ConstantStep /\ ctor.start <= ctor.stop /\ ctor.step > 0)
        => /\ \A k \in 1 .. Len(Results) :
                  Results[k] = IF Term(k) <= ctor.stop THEN Some(Term(k)) ELSE None
           /\ \A k \in 1 .. Len(Results) :
                  IsSome(Results[k]) => Unwrap(Results[k]) <= ctor.stop

C2_Witness ==
    /\ kind = "Inclusive"
    /\ ctor = InclusiveRange(0, 3, 1)
    /\ Results = << Some(0), Some(1), Some(2), Some(3), None >>

(* ------------------------------ C3 ------------------------------------ *)

\* C3: whatever calls to next and step_by were made on an ExclusiveRange, and
\* whatever the steps, every value it returned as Some(v) has v < stop.
C3_ExclusiveYieldsBelowStop ==
    kind = "Exclusive"
        => \A j \in NextEvents :
               IsSome(hist[j].ret) => Unwrap(hist[j].ret) < ctor.stop

C3_Witness ==
    /\ kind = "Exclusive"
    /\ \E i \in StepByEvents, j \in NextEvents :
           /\ i < j
           /\ Unwrap(hist[i].arg) <= 0
           /\ IsSome(hist[j].ret)
           /\ Add(Unwrap(hist[j].ret), MaxStep) >= ctor.stop

(* ------------------------------ C4 ------------------------------------ *)

\* C4: UnboundedRange::next never returns None, and with a constant step its
\* k-th call returns Some(start + (k-1)*step).
C4_UnboundedNeverEnds ==
    kind = "Unbounded"
        => /\ \A j \in NextEvents : IsSome(hist[j].ret)
           /\ ConstantStep
                  => \A k \in 1 .. Len(Results) : Results[k] = Some(Term(k))

C4_Witness ==
    /\ kind = "Unbounded"
    /\ ctor = UnboundedRange(0, 1)
    /\ Results = << Some(0), Some(1), Some(2), Some(3), Some(4) >>

(* ------------------------------ C5 ------------------------------------ *)

\* the guard of next holds of range value r: the range is Active
Active(r) ==
    CASE kind = "Exclusive" -> r.start < r.stop
      [] kind = "Inclusive" -> r.start <= r.stop
      [] kind = "Unbounded" -> TRUE

\* C5: once next has returned None on a bounded range, every later call to
\* next returns None too and the range is never Active again, whatever calls
\* (next, step_by with any step) come in between.
C5_ExhaustedIsTerminal ==
    Bounded
        => \A i \in NextEvents :
               hist[i].ret = None
                   => \A j \in (i + 1) .. Len(hist) :
                          /\ ~Active(hist[j].post)
                          /\ hist[j].op = "next" => hist[j].ret = None

C5_Witness ==
    /\ Bounded
    /\ \E i \in NextEvents, j \in StepByEvents, k \in NextEvents :
           /\ i < j
           /\ j < k
           /\ hist[i].ret = None
           /\ Unwrap(hist[j].arg) < 0
           /\ hist[k].ret = None

(* ------------------------------ C6 ------------------------------------ *)

\* C6: a call to next that returns None on a bounded range leaves start,
\* stop and step as they were before the call.
C6_NoneLeavesStateUnchanged ==
    Bounded
        => \A j \in NextEvents :
               hist[j].ret = None
                   => /\ hist[j].post.start = hist[j].pre.start
                      /\ hist[j].post.stop = hist[j].pre.stop
                      /\ hist[j].post.step = hist[j].pre.step

C6_Witness ==
    /\ Bounded
    /\ \E j \in NextEvents :
           /\ hist[j].ret = None
           /\ hist[j].pre.step # 0
           /\ j = Len(hist)
           /\ rng = hist[j].pre

(* ------------------------------ C7 ------------------------------------ *)

\* C7: step_by(new_step) returns a range of the same variant (the same
\* fields) whose step is new_step, zero and negative included, and whose
\* start and stop (where there is one) are those of the range it was given.
C7_StepByReplacesOnlyStep ==
    \A j \in StepByEvents :
        LET e == hist[j]
        IN  /\ DOMAIN e.post = DOMAIN e.pre
            /\ e.post.step = Unwrap(e.arg)
            /\ e.post.start = e.pre.start
            /\ Bounded => e.post.stop = e.pre.stop

C7_Witness ==
    \E j \in StepByEvents :
        /\ j = Len(hist)
        /\ j > 1
        /\ Unwrap(hist[j].arg) <= 0
        /\ hist[j].pre.step > 0
        /\ hist[j].pre.start # ctor.start
        /\ rng.step = Unwrap(hist[j].arg)

(* ------------------------------ C8 ------------------------------------ *)

\* next of the variant of this behaviour
NextOf(r) ==
    CASE kind = "Exclusive" -> ExclusiveNext(r)
      [] kind = "Inclusive" -> InclusiveNext(r)
      [] kind = "Unbounded" -> UnboundedNext(r)

\* the range of this variant built directly from start, stop and step
Built(start, stop, step) ==
    CASE kind = "Exclusive" -> ExclusiveRange(start, stop, step)
      [] kind = "Inclusive" -> InclusiveRange(start, stop, step)
      [] kind = "Unbounded" -> UnboundedRange(start, step)

\* the results of n successive calls to next on range value r
RECURSIVE Run(_, _)
Run(r, n) ==
    IF n = 0 THEN << >>
    ELSE LET c == NextOf(r) IN << c.ret >> \o Run(c.self, n - 1)

\* step_by was called once, before any call to next
ReboundFirst ==
    /\ Len(hist) >= 1
    /\ hist[1].op = "step_by"
    /\ \A j \in 2 .. Len(hist) : hist[j].op = "next"

\* C8: a range built with step s1 and rebound with step_by(s2) before any
\* call to next returns the same results as the range of the same variant
\* built directly with the same start and stop and with step s2.
C8_ReboundEqualsBuilt ==
    ReboundFirst
        => LET s2 == Unwrap(hist[1].arg)
               stop == IF Bounded THEN ctor.stop ELSE 0
           IN  Results = Run(Built(ctor.start, stop, s2), Len(Results))

C8_Witness ==
    /\ ReboundFirst
    /\ kind = "Exclusive"
    /\ ctor = ExclusiveRange(0, 3, 2)
    /\ Unwrap(hist[1].arg) = 1
    /\ Results = << Some(0), Some(1), Some(2), None >>

(* ------------------------------ C9 ------------------------------------ *)

\* C9 as stated: an ExclusiveRange whose step is zero never returns None, and
\* every call to next returns the same value.
C9_ZeroStepNeverEnds ==
    (kind = "Exclusive" /\ ConstantStep /\ ctor.step = 0)
        => \A k \in 1 .. Len(Results) : Results[k] = Some(ctor.start)

\* C9 amended: an ExclusiveRange whose step is zero and whose start is below
\* its stop never returns None: the guard holds after every call and every
\* call to next returns Some(start).
C9_ZeroStepActiveNeverEnds ==
    (kind = "Exclusive" /\ ConstantStep /\ ctor.step = 0 /\ ctor.start < ctor.stop)
        => /\ \A k \in 1 .. Len(Results) : Results[k] = Some(ctor.start)
           /\ Active(rng)

C9_Witness ==
    /\ kind = "Exclusive"
    /\ ctor = ExclusiveRange(0, 3, 0)
    /\ Results = << Some(0), Some(0), Some(0), Some(0), Some(0) >>

(* ------------------------------ C10 ----------------------------------- *)

\* C10: an ExclusiveRange built with start >= stop yields nothing: its first
\* call to next and every later one return None, whatever the step it was
\* built with or rebound to.
C10_EmptyWhenStartNotBelowStop ==
    (kind = "Exclusive" /\ ctor.start >= ctor.stop)
        => \A j \in NextEvents : hist[j].ret = None

C10_Witness ==
    /\ kind = "Exclusive"
    /\ ctor.start > ctor.stop
    /\ ctor.step < 0
    /\ Len(hist) = 3
    /\ hist[1].op = "next"
    /\ hist[1].ret = None
    /\ hist[2].op = "step_by"
    /\ Unwrap(hist[2].arg) > 0
    /\ hist[3].op = "next"
    /\ hist[3].ret = None

(* ------------------------------ C11 ----------------------------------- *)

\* every step the range has had is non-negative
NonNegSteps ==
    /\ ctor.step >= 0
    /\ \A j \in StepByEvents : Unwrap(hist[j].arg) >= 0

\* the addition of the call to next of event e left the values of T
Overflowed(e) ==
    /\ e.op = "next"
    /\ IsSome(e.ret)
    /\ \/ e.pre.start + e.pre.step > MaxT
       \/ e.pre.start + e.pre.step < MinT

NoOverflow == \A j \in 1 .. Len(hist) : ~Overflowed(hist[j])

\* no call to next moved start back, and no yielded value is below an
\* earlier one
MonotoneForward ==
    /\ \A j \in NextEvents : hist[j].post.start >= hist[j].pre.start
    /\ \A i \in NextEvents, j \in NextEvents :
           (i < j /\ IsSome(hist[i].ret) /\ IsSome(hist[j].ret))
               => Unwrap(hist[i].ret) <= Unwrap(hist[j].ret)

\* C11 as stated: with non-negative steps start never moves back and the
\* yielded values never decrease, also for T a fixed-width integer whose
\* addition wraps modulo 2^Width.
C11_MonotoneForward == NonNegSteps => MonotoneForward

\* C11 amended: with non-negative steps, and as long as no addition
\* start + step has overflowed T, start never moves back and the yielded
\* values never decrease; a call whose addition wraps leaves start below
\* its value before the call.
C11_MonotoneUnlessOverflow ==
    NonNegSteps
        => /\ NoOverflow => MonotoneForward
           /\ \A j \in NextEvents :
                  Overflowed(hist[j]) => hist[j].post.start < hist[j].pre.start

C11_Witness ==
    /\ arith = "wrapping"
    /\ NonNegSteps
    /\ NoOverflow
    /\ ctor.step > 0
    /\ Len(Results) >= 3
    /\ \A k \in 1 .. Len(Results) : IsSome(Results[k])
    /\ rng.start = MaxT

(* ------------------------------ C12 ----------------------------------- *)

\* some call to next has returned None
Exhausted == \E j \in NextEvents : hist[j].ret = None

\* the values returned as Some so far
Yielded == SelectSeq(Results, IsSome)

\* the terms of the progression of the constructed range (step > 0) that
\* satisfy its guard; at most MaxVal + 1 terms lie between start and stop
GuardedTerms == {k \in 1 .. (MaxVal + 1) : Active(Built(Term(k), ctor.stop, ctor.step))}

\* C12: a bounded range with step > 0 that is pulled repeatedly returns None
\* after finitely many calls; None is returned exactly by the calls whose
\* guard is false, and the values yielded before it are as many as the
\* terms of the progression that satisfy the guard.
C12_EventuallyExhausted ==
    /\ [] ((Bounded /\ ctor.step > 0)
              => /\ \A j \in NextEvents : (hist[j].ret = None) <=> ~Active(hist[j].pre)
                 /\ Exhausted => Len(Yielded) = Cardinality(GuardedTerms))
    /\ (Bounded /\ ctor.step > 0) ~> Exhausted

C12_Witness ==
    /\ kind = "Exclusive"
    /\ ctor = ExclusiveRange(0, 3, 2)
    /\ Results = << Some(0), Some(2), None >>
    /\ Cardinality(GuardedTerms) = 2

(* ------------------------------ C13 ----------------------------------- *)

\* the first call to step_by is event p: only calls to next precede it
FirstStepBy(p) == p \in StepByEvents /\ \A i \in 1 .. (p - 1) : hist[i].op = "next"

\* events j and j + 1 are calls to next made after the step_by of event p
\* with no other step_by since
PullPairAfter(p, j) ==
    /\ p \in StepByEvents
    /\ j > p
    /\ j + 1 <= Len(hist)
    /\ \A i \in (p + 1) .. (j + 1) : hist[i].op = "next"

\* C13: step_by after n >= 0 pulls affects only later advances: the n
\* results already returned are those of the range as built, the first pull
\* after step_by(s2) that yields returns start0 + n*s1, the cursor the old
\* step left, and each yielding pull after that returns the value before
\* it plus s2.
C13_StepByAffectsOnlyFuture ==
    LET n == Len(hist)
        sb == StepByEvents
        \* the last call to step_by before event j
        last(j) == CHOOSE p \in sb : p < j /\ \A q \in sb : q < j => q <= p
    IN  /\ \A p \in sb :
               FirstStepBy(p)
                   => /\ [k \in 1 .. (p - 1) |-> hist[k].ret] = Run(ctor, p - 1)
                      /\ (p < n /\ hist[p + 1].op = "next" /\ IsSome(hist[p + 1].ret))
                             => hist[p + 1].ret = Some(ctor.start + (p - 1) * ctor.step)
        /\ \A p \in sb :
               (p < n /\ hist[p + 1].op = "next" /\ IsSome(hist[p + 1].ret))
                   => hist[p + 1].ret = Some(hist[p].pre.start)
        /\ \A j \in 1 .. (n - 1) :
               (/\ hist[j].op = "next"
                /\ hist[j + 1].op = "next"
                /\ IsSome(hist[j].ret)
                /\ IsSome(hist[j + 1].ret)
                /\ \E p \in sb : p < j)
                   => Unwrap(hist[j + 1].ret)
                          = Unwrap(hist[j].ret) + Unwrap(hist[last(j)].arg)

C13_Witness ==
    /\ Len(hist) = 5
    /\ FirstStepBy(3)
    /\ PullPairAfter(3, 4)
    /\ Unwrap(hist[3].arg) # ctor.step
    /\ ctor.step # 0
    /\ \A j \in NextEvents : IsSome(hist[j].ret)

(* ------------------------------ C14 ----------------------------------- *)

\* each call was made on the range value the call before it left
Chained ==
    /\ \A j \in 1 .. Len(hist) :
           hist[j].pre = IF j = 1 THEN ctor ELSE hist[j - 1].post
    /\ rng = IF hist = << >> THEN ctor ELSE hist[Len(hist)].post

\* C14: in every variant next changes neither stop nor step (start is the
\* only field it may change), step changes only in a call to step_by, and
\* stop is in every reachable state the stop the range was built with.
C14_NextChangesOnlyStart ==
    /\ Chained
    /\ \A j \in NextEvents :
           /\ hist[j].post.step = hist[j].pre.step
           /\ Bounded => hist[j].post.stop = hist[j].pre.stop
    /\ \A j \in 1 .. Len(hist) :
           hist[j].post.step # hist[j].pre.step => hist[j].op = "step_by"
    /\ Bounded => /\ rng.stop = ctor.stop
                  /\ \A j \in 1 .. Len(hist) : hist[j].post.stop = ctor.stop

C14_Witness ==
    /\ Bounded
    /\ rng.start # ctor.start
    /\ rng.step # ctor.step
    /\ rng.stop = ctor.stop
    /\ \E j \in NextEvents : j = Len(hist) /\ IsSome(hist[j].ret) /\ hist[j].pre.step # 0

(* ------------------------------ C15 ----------------------------------- *)

\* C15 as stated: a bounded range built with a negative step never yields a
\* descending sequence of values.
C15_NegativeStepNeverDescends ==
    (Bounded /\ ConstantStep /\ ctor.step < 0)
        => \A k \in 1 .. (Len(Yielded) - 1) : Unwrap(Yielded[k + 1]) >= Unwrap(Yielded[k])

\* C15 amended: a bounded range built with a negative step and with its
\* guard false (start >= stop, resp. start > stop) is exhausted at once and
\* for good: every call to next returns None; built with its guard true it
\* counts down: the k-th call returns Some(start + (k-1)*step).
C15_NegativeStepExhaustedOrDescending ==
    (Bounded /\ ConstantStep /\ ctor.step < 0)
        => \A k \in 1 .. Len(Results) :
               Results[k] = IF Active(ctor) THEN Some(Term(k)) ELSE None

C15_Witness ==
    /\ kind = "Inclusive"
    /\ ConstantStep
    /\ ctor.step < 0
    /\ ctor.start > ctor.stop
    /\ Results = << None, None, None >>

(* ------------------------------ C16 ----------------------------------- *)

\* the results of n successive calls to next on range value r of variant k
RECURSIVE RunAs(_, _, _)
RunAs(k, r, n) ==
    IF n = 0 THEN << >>
    ELSE LET c == NextAs(k, r) IN << c.ret >> \o RunAs(k, c.self, n - 1)

\* each call on the other range was made on the value its call before left
OtherChained ==
    /\ \A j \in 1 .. Len(other.hist) :
           other.hist[j].pre = IF j = 1 THEN other.ctor ELSE other.hist[j - 1].post
    /\ other.rng = IF other.hist = << >> THEN other.ctor
                   ELSE other.hist[Len(other.hist)].post

\* C16: under every interleaving of the calls to next on two distinct range
\* values, no call on one changes the start, stop or step of the other, and
\* each returns the results it returns when pulled alone.
C16_DistinctRangesIndependent ==
    other # NoRange
        => /\ Chained
           /\ OtherChained
           /\ Results = RunAs(kind, ctor, Len(hist))
           /\ [j \in 1 .. Len(other.hist) |-> other.hist[j].ret]
                  = RunAs(other.kind, other.ctor, Len(other.hist))

C16_Witness ==
    /\ other # NoRange
    /\ kind = "Exclusive"
    /\ other.kind = "Unbounded"
    /\ Len(hist) = 3
    /\ Len(other.hist) = 3
    /\ Results = << Some(0), Some(1), None >>
    /\ other.rng.start = 3 * other.ctor.step
    /\ other.ctor.step > 0
    /\ other.ctor.start = 0

(* ------------------------------ C17 ----------------------------------- *)

\* C17: with a constant step, start is start0 + n*step in every reachable
\* state of every variant, n being the number of Some results returned so
\* far; so an ExclusiveRange built with step > 0 and start0 < stop whose
\* guard has become false has stop <= start < stop + step.
C17_CursorInvariant ==
    ConstantStep
        => /\ rng.start = ctor.start + Len(Yielded) * ctor.step
           /\ (kind = "Exclusive" /\ ctor.step > 0 /\ ctor.start < ctor.stop /\ ~Active(rng))
                  => (ctor.stop <= rng.start /\ rng.start < ctor.stop + ctor.step)

C17_Witness ==
    /\ kind = "Exclusive"
    /\ ctor = ExclusiveRange(1, 2, 2)
    /\ Results = << Some(1), None, None >>
    /\ rng.start = 3

(* ------------------------------ C18 ----------------------------------- *)

\* stop is a term start + k*step (k >= 0) of the progression of the range
\* as built (step > 0); stop - start is at most MaxVal
StopOnProgression ==
    /\ ctor.start <= ctor.stop
    /\ \E k \in 0 .. MaxVal : ctor.stop = ctor.start + k * ctor.step

\* the values an ExclusiveRange with the fields of ctor yields in n calls
ExclusiveYields(n) == SelectSeq(RunAs("Exclusive", ctor, n), IsSome)

\* C18: for the same start, stop and step > 0, the values an InclusiveRange
\* yields are those the ExclusiveRange yields, followed by one more value,
\* stop, exactly when start <= stop and stop lies on the progression.
C18_InclusiveIsExclusivePlusStop ==
    (kind = "Inclusive" /\ ConstantStep /\ ctor.step > 0 /\ Exhausted)
        => Yielded = IF StopOnProgression
                     THEN Append(ExclusiveYields(Len(hist)), Some(ctor.stop))
                     ELSE ExclusiveYields(Len(hist))

C18_Witness ==
    /\ kind = "Inclusive"
    /\ ctor = InclusiveRange(1, 3, 2)
    /\ Results = << Some(1), Some(3), None >>
    /\ ExclusiveYields(3) = << Some(1) >>

(* ------------------------------ C19 ----------------------------------- *)

\* step_by of variant k
StepByAs(k, r, step) ==
    CASE k = "Exclusive" -> ExclusiveStepBy(r, step)
      [] k = "Inclusive" -> InclusiveStepBy(r, step)
      [] k = "Unbounded" -> UnboundedStepBy(r, step)

\* C19: in every variant and state r.step_by(a).step_by(b) has the fields
\* of r.step_by(b), and r.step_by(s) with s the step of r has the fields
\* of r.
C19_StepByLastWriterWins ==
    /\ \A j \in StepByEvents :
           (j + 1) \in StepByEvents
               => hist[j + 1].post = StepByAs(kind, hist[j].pre, Unwrap(hist[j + 1].arg))
    /\ \A j \in StepByEvents :
           Unwrap(hist[j].arg) = hist[j].pre.step => hist[j].post = hist[j].pre

C19_Witness ==
    /\ Len(hist) = 3
    /\ hist[1].op = "next"
    /\ IsSome(hist[1].ret)
    /\ hist[2].op = "step_by"
    /\ hist[3].op = "step_by"
    /\ Unwrap(hist[2].arg) # hist[2].pre.step
    /\ Unwrap(hist[3].arg) # Unwrap(hist[2].arg)
    /\ Unwrap(hist[2].arg) # 0
    /\ rng.start # ctor.start
    /\ rng.step = Unwrap(hist[3].arg)

====
